---- MODULE Spec2Model ----
(***************************************************************************)
(* Model of the codeblock-bff server: the flows CRUD handlers, the         *)
(* definition cache and the flow execution engine                          *)
(* (packages/server/src/api/flows/index.ts, config/redis.ts,               *)
(* utils/response.ts).                                                     *)
(***************************************************************************)
EXTENDS Integers, Sequences, FiniteSets, TLC

(***************************************************************************)
(* Bounds of the model.                                                    *)
(***************************************************************************)
MaxCalls == 3
MaxRequests == 2
MaxEngineRequests == 1

(***************************************************************************)
(* JavaScript values.  Every value is a record tagged with its kind, so    *)
(* that undefined, null, strings, objects and arrays stay distinct.        *)
(***************************************************************************)
Undefined == [k |-> "undefined"]
Null == [k |-> "null"]
Str(s) == [k |-> "string", v |-> s]
Bool(b) == [k |-> "boolean", v |-> b]
Obj(f) == [k |-> "object", v |-> f]
Arr(s) == [k |-> "array", v |-> s]

EmptyObject == [x \in {} |-> Undefined]

\* obj[key] of a plain JavaScript object held as a function: a missing key
\* reads as undefined.
Prop(obj, key) == IF key \in DOMAIN obj THEN obj[key] ELSE Undefined

\* obj[key] = value
SetProp(obj, key, value) ==
  [x \in DOMAIN obj \cup {key} |-> IF x = key THEN value ELSE obj[x]]

\* JSON.stringify of an object followed by JSON.parse: a key whose value is
\* undefined is not serialised.
JsonObject(obj) == [x \in {y \in DOMAIN obj : obj[y] # Undefined} |-> obj[x]]

\* An ObjectId as the driver returns it, and the string it serialises to.
ObjectId(n) == [oid |-> TRUE, hex |-> n]
IdString(id) == [oid |-> FALSE, hex |-> id.hex]

(***************************************************************************)
(* Simple JSONPath extractor.  A path is held as it is after               *)
(* path.replace(/^\$\.?/, '').split('.'): root is TRUE for the paths ''    *)
(* and '$', parts is the list of segments, and a segment that matches      *)
(* /^(\w+)\[(\d+)\]$/ has indexed = TRUE with its key and index.           *)
(***************************************************************************)
Key(name) == [indexed |-> FALSE, key |-> name, index |-> 0]
KeyAt(name, n) == [indexed |-> TRUE, key |-> name, index |-> n]
RootPath == [root |-> TRUE, parts |-> <<>>]
Path(parts) == [root |-> FALSE, parts |-> parts]

\* (current as Record<string, unknown>)[key]
Member(current, key) ==
  IF current.k = "object" THEN Prop(current.v, key) ELSE Undefined

RECURSIVE WalkPath(_, _)
WalkPath(current, parts) ==
  IF parts = <<>> THEN current
  ELSE IF current = Null \/ current = Undefined THEN Undefined
  ELSE LET part == Head(parts)
           held == Member(current, part.key)
           next == IF part.indexed /\ held.k = "array"
                   THEN IF part.index + 1 <= Len(held.v)
                        THEN held.v[part.index + 1] ELSE Undefined
                   ELSE held
       IN  WalkPath(next, Tail(parts))

extractJsonPath(data, path) ==
  IF path.root THEN data ELSE WalkPath(data, path.parts)

(***************************************************************************)
(* Topological sort for execution order (Kahn's algorithm).  A JavaScript  *)
(* Map is held as the list of its keys in insertion order plus a function  *)
(* giving the values.                                                      *)
(***************************************************************************)
RECURSIVE InsertionOrder(_, _)
\* The keys of a Map after set() of each element of ids, in order: a key
\* that is set again keeps its first position.
InsertionOrder(keys, ids) ==
  IF ids = <<>> THEN keys
  ELSE LET id == Head(ids)
       IN  InsertionOrder(
             IF \E i \in 1..Len(keys) : keys[i] = id THEN keys ELSE Append(keys, id),
             Tail(ids))

SeqMap(Op(_), s) == [i \in 1..Len(s) |-> Op(s[i])]
Range(s) == {s[i] : i \in 1..Len(s)}

RECURSIVE SelectTargets(_, _)
\* graph.get(id): the toBlockId of every connection leaving id, in order.
SelectTargets(connections, id) ==
  IF connections = <<>> THEN <<>>
  ELSE LET rest == SelectTargets(Tail(connections), id)
       IN  IF Head(connections).fromBlockId = id
           THEN <<Head(connections).toBlockId>> \o rest ELSE rest

\* A faulty variant of Visit, which property C27_EveryBlockOnce detects:
\* no successor is ever queued.
VisitNoPush(targets, inDegree, queue) ==
  [inDegree |-> inDegree, queue |-> queue]

RECURSIVE Visit(_, _, _)
\* The inner for loop over graph.get(current): returns the new inDegree
\* and the queue.
Visit(targets, inDegree, queue) ==
  IF targets = <<>> THEN [inDegree |-> inDegree, queue |-> queue]
  ELSE LET next == Head(targets)
           newDegree == inDegree[next] - 1
       IN  Visit(Tail(targets),
                 [inDegree EXCEPT ![next] = newDegree],
                 IF newDegree = 0 THEN Append(queue, next) ELSE queue)

RECURSIVE Kahn(_, _, _, _)
Kahn(graph, inDegree, queue, result) ==
  IF queue = <<>> THEN result
  ELSE LET current == Head(queue)
           targets == IF current \in DOMAIN graph THEN graph[current] ELSE <<>>
           after == Visit(targets, inDegree, Tail(queue))
       IN  Kahn(graph, after.inDegree, after.queue, Append(result, current))

topologicalSort(blocks, connections) ==
  LET blockIds == SeqMap(LAMBDA b : b.id, blocks)
      toIds == SeqMap(LAMBDA c : c.toBlockId, connections)
      graph == [id \in Range(blockIds) |-> SelectTargets(connections, id)]
      keys == InsertionOrder(InsertionOrder(<<>>, blockIds), toIds)
      inDegree == [id \in Range(keys) |->
                     Cardinality({i \in 1..Len(connections) :
                                    connections[i].toBlockId = id})]
      queue == SelectSeq(keys, LAMBDA id : inDegree[id] = 0)
  IN  Kahn(graph, inDegree, queue, <<>>)

(***************************************************************************)
(* Resolve input mappings.  context is [inputs, blockResults]; a block     *)
(* result is [status, outputs, error, rawResponse] where an absent field   *)
(* is Undefined and outputs, when present, is an object.                   *)
(***************************************************************************)
FlowInput(name) == [type |-> "flow_input", name |-> name, blockId |-> "",
                    outputName |-> "", value |-> Undefined]
BlockOutput(blockId, outputName) ==
  [type |-> "block_output", name |-> "", blockId |-> blockId,
   outputName |-> outputName, value |-> Undefined]
Constant(value) == [type |-> "constant", name |-> "", blockId |-> "",
                    outputName |-> "", value |-> value]
Expression(text) == [type |-> "expression", name |-> "", blockId |-> "",
                     outputName |-> "", value |-> Str(text)]
Mapping(targetInput, source) == [targetInput |-> targetInput, source |-> source]

HasOutputs(blockResults, blockId) ==
  /\ blockId \in DOMAIN blockResults
  /\ blockResults[blockId].outputs # Undefined

\* One iteration of the for loop of resolveInputMappings.
ApplyMapping(result, mapping, context) ==
  LET source == mapping.source
  IN  CASE source.type = "flow_input" ->
             SetProp(result, mapping.targetInput, Prop(context.inputs, source.name))
        [] source.type = "block_output" ->
             IF HasOutputs(context.blockResults, source.blockId)
             THEN SetProp(result, mapping.targetInput,
                          Prop(context.blockResults[source.blockId].outputs.v,
                               source.outputName))
             ELSE result
        [] source.type = "constant" ->
             SetProp(result, mapping.targetInput, source.value)
        [] source.type = "expression" ->
             SetProp(result, mapping.targetInput, source.value)
        [] OTHER -> result

RECURSIVE ResolveFrom(_, _, _)
ResolveFrom(result, mappings, context) ==
  IF mappings = <<>> THEN result
  ELSE ResolveFrom(ApplyMapping(result, Head(mappings), context),
                   Tail(mappings), context)

resolveInputMappings(mappings, context) ==
  ResolveFrom(EmptyObject, mappings, context)

(***************************************************************************)
(* HTTP responses (utils/response.ts).  The body is the JSON text of       *)
(* {success, data} or {success, error: {code, message}}.                   *)
(***************************************************************************)
NoResponse == [status |-> 0, success |-> FALSE, data |-> Undefined,
               code |-> "", message |-> <<>>]

jsonResponse(data, status) ==
  [status |-> status, success |-> (status >= 200 /\ status < 300),
   data |-> IF data.k = "object" THEN Obj(JsonObject(data.v)) ELSE data,
   code |-> "", message |-> <<>>]

errorResponseCode(message, status, code) ==
  [status |-> status, success |-> FALSE, data |-> Undefined,
   code |-> code, message |-> message]

\* errorResponse called without a code: the parameter defaults to 'ERROR'.
errorResponse(message, status) == errorResponseCode(message, status, "ERROR")

(***************************************************************************)
(* Block definitions of the blocks collection, and the upstream services.  *)
(***************************************************************************)
ApiBlock ==
  [_id |-> "b1", type |-> "api_call",
   outputs |-> << [name |-> "email", path |-> Path(<<Key("email")>>)],
                  [name |-> "ok", path |-> Path(<<Key("ok")>>)] >>]
TransformBlock == [_id |-> "b2", type |-> "transform", outputs |-> <<>>]
ConditionBlock == [_id |-> "b3", type |-> "condition", outputs |-> <<>>]

\* The strings new ObjectId(...) accepts; any other string makes it throw.
WellFormedIds == {"b1", "b2", "b3", "b9"}
MalformedId == "not-an-object-id"

BodyUser ==
  Obj([email |-> Str("u@x"), ok |-> Bool(TRUE), none |-> Null,
       user |-> Obj([email |-> Str("u@x")]),
       items |-> Arr(<<Obj([id |-> Str("i0")]), Str("i1")>>)])
BodyEmpty == Obj(EmptyObject)

\* What fetch(...) followed by response.json() can produce: fetch rejects
\* (transport error or AbortSignal timeout), or a response arrives whose
\* body is JSON or not.
UpstreamReplies ==
  {[rejected |-> TRUE, status |-> 0, json |-> FALSE, data |-> Undefined]}
  \cup [rejected : {FALSE}, status : {200, 500}, json : {TRUE},
        data : {BodyUser}]
  \cup [rejected : {FALSE}, status : {200, 404}, json : {TRUE},
        data : {BodyEmpty}]
  \cup [rejected : {FALSE}, status : {200, 500}, json : {FALSE},
        data : {Undefined}]

Error(message) == [message |-> message]

BlockResult(status, outputs, error, rawResponse) ==
  [status |-> status, outputs |-> outputs, error |-> error,
   rawResponse |-> rawResponse]

RECURSIVE ExtractOutputs(_, _, _)
\* for (const output of block.outputs) outputs[output.name] = extractJsonPath(...)
ExtractOutputs(outputs, declared, data) ==
  IF declared = <<>> THEN outputs
  ELSE ExtractOutputs(
         SetProp(outputs, Head(declared).name,
                 extractJsonPath(data, Head(declared).path)),
         Tail(declared), data)

\* The result executeApiCall returns once the upstream call has ended with
\* reply.
executeApiCall(block, reply) ==
  IF reply.rejected THEN
    BlockResult("failure", Undefined, Error(<<"API call failed">>), Undefined)
  ELSE IF ~reply.json THEN
    BlockResult("failure", Undefined, Error(<<"JSON Parse error">>), Undefined)
  ELSE
    BlockResult(IF reply.status >= 200 /\ reply.status < 300
                THEN "success" ELSE "failure",
                Obj(ExtractOutputs(EmptyObject, block.outputs, reply.data)),
                Undefined,
                [statusCode |-> reply.status, data |-> reply.data])

executeTransform(block, inputs) ==
  BlockResult("success", Obj(inputs), Undefined, Undefined)

\* A faulty variant of testResult, which property C7_TestMode detects: the
\* synthetic result lacks the _test flag.
testResultUnflagged(blockId) ==
  BlockResult("success", Obj([blockId |-> Str(blockId)]), Undefined, Undefined)

testResult(blockId) ==
  BlockResult("success", Obj([_test |-> Bool(TRUE), blockId |-> Str(blockId)]),
              Undefined, Undefined)

(***************************************************************************)
(* Flow definitions.                                                       *)
(***************************************************************************)
\* config.retryCount of every block instance
RetryCount == 2

FlowBlock(id, blockId, inputMappings, continueOnError) ==
  [id |-> id, blockId |-> blockId, inputMappings |-> inputMappings,
   config |-> [continueOnError |-> continueOnError, retryCount |-> RetryCount]]
Connection(from, to) == [fromBlockId |-> from, toBlockId |-> to]
InputDef(name, required, defaultValue) ==
  [name |-> name, required |-> required, defaultValue |-> defaultValue]
OutputDef(name, sourceBlockId, sourceOutput) ==
  [name |-> name, sourceBlockId |-> sourceBlockId, sourceOutput |-> sourceOutput]
Definition(blocks, connections, inputs, outputs) ==
  [blocks |-> blocks, connections |-> connections, inputs |-> inputs,
   outputs |-> outputs]

\* The flows the engine is exercised on: three block instances a, b, c;
\* a calls an upstream, references a definition that
\* is missing, of an unsupported type or with a malformed id; b consumes
\* a's output; the connections are acyclic, cyclic, self-looping or dangling.
BlockA(blockId, continueOnError) ==
  FlowBlock("a", blockId, <<Mapping("id", FlowInput("x"))>>, continueOnError)
BlockB(inputMappings) == FlowBlock("b", "b2", inputMappings, FALSE)
BlockC == FlowBlock("c", "b1", <<Mapping("q", FlowInput("x"))>>, FALSE)

MappingsB ==
  { << Mapping("to", BlockOutput("a", "email")),
       Mapping("subject", Constant(Str("hello"))) >>,
    << Mapping("to", FlowInput("x")),
       Mapping("to", BlockOutput("a", "email")),
       Mapping("note", Expression("1 + 1")) >> }

BlockLists ==
  { <<BlockA(d, coe), BlockB(m), BlockC>> :
      <<d, coe, m>> \in
        {"b1", "b3", "b9", MalformedId} \X BOOLEAN \X MappingsB }

ConnectionLists ==
  { <<>>,
    <<Connection("a", "b")>>,
    <<Connection("a", "b"), Connection("b", "c")>>,
    <<Connection("a", "b"), Connection("b", "a")>>,
    <<Connection("c", "c"), Connection("a", "b")>>,
    <<Connection("a", "z"), Connection("z", "b")>> }

InputLists ==
  { <<InputDef("x", TRUE, Undefined)>>,
    <<InputDef("x", FALSE, Str("dflt"))>>,
    <<InputDef("x", FALSE, Undefined)>> }

OutputLists ==
  { << OutputDef("reply", "a", "email"), OutputDef("sent", "b", "to"),
       OutputDef("lost", "z", "email"), OutputDef("none", "c", "nosuch") >> }

EngineDefinitions ==
  { Definition(bl, cn, ins, outs) :
      <<bl, cn, ins, outs>> \in
        BlockLists \X ConnectionLists \X InputLists \X OutputLists }

\* The request payloads after parsing: {} (also an absent or unparsable
\* body) and {"x": "hi"}.
Payloads == { EmptyObject, [x |-> Str("hi")] }

(***************************************************************************)
(* State.                                                                  *)
(***************************************************************************)
VARIABLES
  flows,           \* the flows collection: a set of documents
  blocks,          \* the blocks collection: a set of documents
  execution_logs,  \* the execution_logs collection, in insertion order
  redis,           \* the cache: key -> value, for the keys that are set
  redisUp,         \* whether the commands sent to redis succeed
  now,             \* the time, in units of TimeUnit seconds
  expires,         \* the time at which each key set so far expires
  replaced,        \* flow documents replaced or removed while a request
                   \* was in service, each with the time of the write
  concurrent,      \* a second request, served at the same time: where it
                   \* stands, its slug and the flow it has loaded
  nextId,          \* number of ObjectIds generated so far
  clock,           \* number of execute requests received so far (Date.now())
  pendingLogs,     \* logExecution calls whose insertOne has not ended yet
  calls,           \* number of calls of the flows API received so far
  pc,              \* where the execute request in progress stands
  req,             \* the request being served, or the last one served
  flow,            \* executeFlow: the flow loaded from cache or store
  inputs,          \* executeFlow: the inputs after validation and defaults
  executionOrder,  \* runFlowExecution: the order from topologicalSort
  idx,             \* runFlowExecution: position in executionOrder
  blockResults,    \* context.blockResults
  blockInputs,     \* runFlowExecution: the inputs resolved for the block
  block,           \* executeBlock: the block definition, once loaded
  outcome,         \* what runFlowExecution returned
  response,        \* the response to req, once sent
  dispatched,      \* instance ids passed to executeBlock in this request
  upstreamCalls,   \* instance ids for which fetch() was called
  resolved,        \* for each resolveInputMappings call of this request:
                   \* instance id, inputs produced and results known then
  testStarts,      \* startTime of every test request received
  nodes,           \* flow editor store: the Vue Flow nodes, in order
  edges,           \* flow editor store: the Vue Flow edges, in order
  selectedNodeId,  \* flow editor store: the selected node id, or null
  hasChanges,      \* flow editor store: whether there are unsaved changes
  editorClock      \* the last value Date.now() returned in the browser

storeVars == <<flows, blocks, execution_logs, redis, nextId, pendingLogs,
               calls, redisUp, now, expires, replaced, concurrent>>
execVars == <<pc, req, flow, inputs, executionOrder, idx, blockResults,
              blockInputs, block, outcome, response, dispatched,
              upstreamCalls, resolved>>
editorVars == <<nodes, edges, selectedNodeId, hasChanges, editorClock>>
vars == <<storeVars, execVars, clock, testStarts, editorVars>>

SlugKey(slug) == <<"flow:slug:">> \o slug
BlockKey(id) == <<"block:", id>>

\* The TTL of the keys of flows and blocks, 300 s, in units of time.
TimeUnit == 150
TTL == 300 \div TimeUnit

\* CacheService.get: null when the key is not set, and null when the
\* command fails (the catch clause).
CacheGet(key) == IF redisUp /\ key \in DOMAIN redis THEN redis[key] ELSE Null
\* A faulty variant of CacheSet, which property C25_EngineWrites detects:
\* setting a key drops the others.
CacheSetOnly(cache, key, value) == [x \in {key} |-> value]

\* CacheService.set: redis.set followed by redis.expire.
CacheSet(cache, key, value) ==
  [x \in DOMAIN cache \cup {key} |-> IF x = key THEN value ELSE cache[x]]
CacheDel(cache, keys) == [x \in DOMAIN cache \ keys |-> cache[x]]

\* A key that is deleted loses its time to live with it.
ExpiresFollow ==
  expires' = [key \in DOMAIN expires \cap DOMAIN redis' |-> expires[key]]

\* JSON.stringify / JSON.parse of a flow document: the ObjectId becomes its
\* string.
JsonFlow(doc) == [doc EXCEPT !._id = IdString(doc._id)]

Request(op, slug, isTest, payload, startTime) ==
  [op |-> op, slug |-> slug, isTest |-> isTest, payload |-> payload,
   startTime |-> startTime]
NoRequest == Request("", <<>>, FALSE, EmptyObject, 0)
NoOutcome == [outputs |-> Undefined, error |-> Undefined]

(***************************************************************************)
(* The execute endpoint.  Each action is the code between two awaits of    *)
(* executeFlow, runFlowExecution, executeBlock and executeApiCall.          *)
(***************************************************************************)
Idle == pc = "idle"

\* The response is sent and the request is over.
Reply(r) == /\ response' = r
            /\ pc' = "idle"

\* A new request starts with fresh local variables.
ResetLocals ==
  /\ flow' = Null
  /\ inputs' = EmptyObject
  /\ executionOrder' = <<>>
  /\ idx' = 1
  /\ blockResults' = EmptyObject
  /\ blockInputs' = EmptyObject
  /\ block' = Null
  /\ outcome' = NoOutcome
  /\ dispatched' = <<>>
  /\ upstreamCalls' = <<>>
  /\ resolved' = <<>>

\* handleExecuteApi: /api/execute/<slug> or /api/execute/<slug>/test with a
\* payload; executeFlow starts with the cache lookup.
handleExecuteApi(slug, suffix, payload) ==
  /\ Idle
  /\ clock < MaxRequests
  /\ clock' = clock + 1
  /\ req' = Request("execute", slug, suffix = "test", payload, clock + 1)
  /\ testStarts' = IF suffix = "test" THEN testStarts \cup {clock + 1}
                   ELSE testStarts
  /\ pc' = "getFlowBySlug"
  /\ response' = NoResponse
  /\ ResetLocals
  /\ UNCHANGED <<storeVars, editorVars>>

\* executeFlow: let flow = await cacheService.getFlowBySlug(slug)
executeFlow_getFlowBySlug ==
  /\ pc = "getFlowBySlug"
  /\ flow' = CacheGet(SlugKey(req.slug))
  /\ pc' = IF flow' # Null THEN "inputs" ELSE "findOne"
  /\ UNCHANGED <<editorVars, storeVars, clock, testStarts, req, inputs, executionOrder, idx,
                 blockResults, blockInputs, block, outcome, response,
                 dispatched, upstreamCalls, resolved>>

\* collection.findOne({ slug, status: 'published' })
FindPublished(collection, slug) ==
  {doc \in collection : doc.slug = slug /\ doc.status = "published"}

\* executeFlow: the store lookup after a cache miss; 404 when there is none.
executeFlow_findOne ==
  /\ pc = "findOne"
  /\ LET found == FindPublished(flows, req.slug)
     IN  IF found = {}
         THEN /\ Reply(errorResponse(<<"Flow not found or not published">>, 404))
              /\ flow' = Null
         ELSE /\ flow' \in found
              /\ pc' = "setFlowBySlug"
              /\ UNCHANGED response
  /\ UNCHANGED <<editorVars, storeVars, clock, testStarts, req, inputs, executionOrder, idx,
                 blockResults, blockInputs, block, outcome,
                 dispatched, upstreamCalls, resolved>>

\* executeFlow: await cacheService.setFlowBySlug(slug, flow)
executeFlow_setFlowBySlug ==
  /\ pc = "setFlowBySlug"
  /\ IF redisUp
     THEN /\ redis' = CacheSet(redis, SlugKey(req.slug), JsonFlow(flow))
          /\ expires' = CacheSet(expires, SlugKey(req.slug), now + TTL)
          /\ pc' = "inputs"
          /\ UNCHANGED response
     ELSE \* set() has no catch clause: the rejection leaves executeFlow and
          \* handleExecuteApi and ends in the catch clause of the server.
          /\ Reply(errorResponseCode(<<"Connection is closed">>, 500, "INTERNAL_ERROR"))
          /\ UNCHANGED <<redis, expires>>
  /\ UNCHANGED <<editorVars, concurrent, flows, blocks, execution_logs, nextId, pendingLogs,
                 calls, redisUp, now, replaced, clock, testStarts, req, flow,
                 inputs, executionOrder, idx, blockResults, blockInputs, block,
                 outcome, dispatched, upstreamCalls, resolved>>

RECURSIVE MissingRequired(_, _)
\* The first declared input that is required and undefined in the payload,
\* as a one-element list; <<>> when there is none.
MissingRequired(declared, payload) ==
  IF declared = <<>> THEN <<>>
  ELSE IF Head(declared).required /\ Prop(payload, Head(declared).name) = Undefined
       THEN <<Head(declared).name>>
       ELSE MissingRequired(Tail(declared), payload)

\* A faulty variant of ApplyDefaults, which property C9_DefaultApplied
\* detects: the payload is passed on as received.
ApplyDefaultsSkipped(declared, payload) == payload

RECURSIVE ApplyDefaults(_, _)
ApplyDefaults(declared, payload) ==
  IF declared = <<>> THEN payload
  ELSE LET input == Head(declared)
       IN  ApplyDefaults(
             Tail(declared),
             IF Prop(payload, input.name) = Undefined /\ input.defaultValue # Undefined
             THEN SetProp(payload, input.name, input.defaultValue)
             ELSE payload)

\* executeFlow: validation of the required inputs, the defaults, and the
\* start of runFlowExecution (context and topologicalSort).
executeFlow_inputs ==
  /\ pc = "inputs"
  /\ LET missing == MissingRequired(flow.inputs, req.payload)
     IN  IF missing # <<>>
         THEN /\ Reply(errorResponse(<<"Missing required input: ", missing[1]>>, 400))
              /\ UNCHANGED <<inputs, executionOrder>>
         ELSE /\ inputs' = ApplyDefaults(flow.inputs, req.payload)
              /\ executionOrder' = topologicalSort(flow.blocks, flow.connections)
              /\ pc' = "block"
              /\ UNCHANGED response
  /\ UNCHANGED <<editorVars, storeVars, clock, testStarts, req, flow, idx, blockResults,
                 blockInputs, block, outcome, dispatched, upstreamCalls, resolved>>

(***************************************************************************)
(* runFlowExecution: the loop over executionOrder.                         *)
(***************************************************************************)
\* flow.blocks.find(b => b.id === blockId), as a list of zero or one block.
FindBlock(flowBlocks, blockId) ==
  LET hits == SelectSeq(flowBlocks, LAMBDA b : b.id = blockId)
  IN  IF hits = <<>> THEN <<>> ELSE <<Head(hits)>>

InLoop == pc = "block" /\ idx <= Len(executionOrder)
flowBlock == FindBlock(flow.blocks, executionOrder[idx])[1]

\* if (!flowBlock) continue
runFlowExecution_continue ==
  /\ InLoop
  /\ FindBlock(flow.blocks, executionOrder[idx]) = <<>>
  /\ idx' = idx + 1
  /\ UNCHANGED <<editorVars, storeVars, clock, testStarts, pc, req, flow, inputs,
                 executionOrder, blockResults, blockInputs, block, outcome,
                 response, dispatched, upstreamCalls, resolved>>

\* resolveInputMappings, then the call of executeBlock up to its first await.
runFlowExecution_resolve ==
  /\ InLoop
  /\ FindBlock(flow.blocks, executionOrder[idx]) # <<>>
  /\ blockInputs' = resolveInputMappings(
                      flowBlock.inputMappings,
                      [inputs |-> inputs, blockResults |-> blockResults])
  /\ resolved' = Append(resolved, [id |-> flowBlock.id, inputs |-> blockInputs',
                                   recorded |-> DOMAIN blockResults])
  /\ dispatched' = Append(dispatched, flowBlock.id)
  /\ block' = Null
  /\ pc' = "getBlock"
  /\ UNCHANGED <<editorVars, storeVars, clock, testStarts, req, flow, inputs,
                 executionOrder, idx, blockResults, outcome, response,
                 upstreamCalls>>

\* The loop goes on with the next block.
Continue ==
  /\ idx' = idx + 1
  /\ pc' = "block"
  /\ UNCHANGED outcome

\* return { error: { message, blockId } }
Abort(message) ==
  /\ outcome' = [outputs |-> Undefined,
                 error |-> [message |-> message, blockId |-> flowBlock.id]]
  /\ pc' = "respond"
  /\ UNCHANGED idx

\* context.blockResults.set(blockId, result) and the check for errors.
StoreResult(result) ==
  /\ blockResults' = SetProp(blockResults, flowBlock.id, result)
  /\ IF result.error # Undefined /\ ~flowBlock.config.continueOnError
     THEN Abort(result.error.message)
     ELSE Continue

\* The catch clause of the loop body.
Catch(message) ==
  /\ UNCHANGED blockResults
  /\ IF ~flowBlock.config.continueOnError THEN Abort(message) ELSE Continue

\* executeBlock: let block = await cacheService.getBlock(blockId)
executeBlock_getBlock ==
  /\ pc = "getBlock"
  /\ block' = CacheGet(BlockKey(flowBlock.blockId))
  /\ pc' = IF block' # Null THEN "run" ELSE "findBlock"
  /\ UNCHANGED <<editorVars, storeVars, clock, testStarts, req, flow, inputs,
                 executionOrder, idx, blockResults, blockInputs, outcome,
                 response, dispatched, upstreamCalls, resolved>>

\* executeBlock: collection.findOne({ _id: new ObjectId(blockId) }); the
\* constructor throws on a malformed id, and a missing definition is a
\* failure result.
executeBlock_findOne ==
  /\ pc = "findBlock"
  /\ LET found == {doc \in blocks : doc._id = flowBlock.blockId}
     IN  IF flowBlock.blockId \notin WellFormedIds
         THEN /\ Catch(<<"input must be a 24 character hex string">>)
              /\ UNCHANGED block
         ELSE IF found = {}
         THEN /\ StoreResult(BlockResult("failure", Undefined,
                               Error(<<"Block not found: ", flowBlock.blockId>>),
                               Undefined))
              /\ UNCHANGED block
         ELSE /\ block' \in found
              /\ pc' = "setBlock"
              /\ UNCHANGED <<idx, outcome, blockResults>>
  /\ UNCHANGED <<editorVars, storeVars, clock, testStarts, req, flow, inputs,
                 executionOrder, blockInputs, response, dispatched,
                 upstreamCalls, resolved>>

\* executeBlock: await cacheService.setBlock(blockId, block)
executeBlock_setBlock ==
  /\ pc = "setBlock"
  /\ IF redisUp
     THEN /\ redis' = CacheSet(redis, BlockKey(flowBlock.blockId), block)
          /\ expires' = CacheSet(expires, BlockKey(flowBlock.blockId), now + TTL)
          /\ pc' = "run"
          /\ UNCHANGED <<idx, outcome, blockResults>>
     ELSE \* the rejection of set() leaves executeBlock and is caught by the
          \* loop of runFlowExecution.
          /\ Catch(<<"Connection is closed">>)
          /\ UNCHANGED <<redis, expires>>
  /\ UNCHANGED <<editorVars, concurrent, flows, blocks, execution_logs, nextId, pendingLogs,
                 calls, redisUp, now, replaced, clock, testStarts, req, flow,
                 inputs, executionOrder, blockInputs, block, response,
                 dispatched, upstreamCalls, resolved>>

\* executeBlock with the definition in hand: the mock result in test mode,
\* the upstream call of an api_call block (executeApiCall up to its fetch),
\* the transform result, or the failure for any other type.
executeBlock_run ==
  /\ pc = "run"
  /\ IF req.isTest
     THEN StoreResult(testResult(flowBlock.blockId)) /\ UNCHANGED upstreamCalls
     ELSE IF block.type = "api_call"
     THEN /\ upstreamCalls' = Append(upstreamCalls, flowBlock.id)
          /\ pc' = "fetch"
          /\ UNCHANGED <<idx, outcome, blockResults>>
     ELSE IF block.type = "transform"
     THEN StoreResult(executeTransform(block, blockInputs)) /\ UNCHANGED upstreamCalls
     ELSE /\ StoreResult(BlockResult("failure", Undefined,
                           Error(<<"Unsupported block type: ", block.type>>),
                           Undefined))
          /\ UNCHANGED upstreamCalls
  /\ UNCHANGED <<editorVars, storeVars, clock, testStarts, req, flow, inputs,
                 executionOrder, blockInputs, block, response, dispatched,
                 resolved>>

\* executeApiCall: the upstream call ends, with any of the possible replies.
executeApiCall_reply ==
  /\ pc = "fetch"
  /\ \E reply \in UpstreamReplies : StoreResult(executeApiCall(block, reply))
  /\ UNCHANGED <<editorVars, storeVars, clock, testStarts, req, flow, inputs,
                 executionOrder, blockInputs, block, response, dispatched,
                 upstreamCalls, resolved>>

\* A faulty variant of BuildOutputs, which property C10_ProjectedOutputs
\* detects: a lookup that misses sets the key to null.
RECURSIVE BuildOutputsNull(_, _, _)
BuildOutputsNull(outputs, declared, results) ==
  IF declared = <<>> THEN outputs
  ELSE LET output == Head(declared)
       IN  BuildOutputsNull(
             SetProp(outputs, output.name,
                     IF HasOutputs(results, output.sourceBlockId)
                        /\ Prop(results[output.sourceBlockId].outputs.v,
                                output.sourceOutput) # Undefined
                     THEN Prop(results[output.sourceBlockId].outputs.v,
                               output.sourceOutput)
                     ELSE Null),
             Tail(declared), results)

RECURSIVE BuildOutputs(_, _, _)
\* The "Build outputs" loop of runFlowExecution.
BuildOutputs(outputs, declared, results) ==
  IF declared = <<>> THEN outputs
  ELSE LET output == Head(declared)
       IN  BuildOutputs(
             IF HasOutputs(results, output.sourceBlockId)
             THEN SetProp(outputs, output.name,
                          Prop(results[output.sourceBlockId].outputs.v,
                               output.sourceOutput))
             ELSE outputs,
             Tail(declared), results)

\* runFlowExecution after the loop: return { outputs }
runFlowExecution_outputs ==
  /\ pc = "block"
  /\ idx > Len(executionOrder)
  /\ outcome' = [outputs |-> Obj(BuildOutputs(EmptyObject, flow.outputs, blockResults)),
                 error |-> Undefined]
  /\ pc' = "respond"
  /\ UNCHANGED <<editorVars, storeVars, clock, testStarts, req, flow, inputs,
                 executionOrder, idx, blockResults, blockInputs, block,
                 response, dispatched, upstreamCalls, resolved>>

\* The document logExecution inserts.
LogRecord(f, in, result, startTime) ==
  [flowId |-> f._id, flowVersion |-> f.version, inputs |-> in,
   status |-> IF result.error # Undefined THEN "failure" ELSE "success",
   outputs |-> result.outputs, error |-> result.error, startedAt |-> startTime]

\* A faulty variant of ShouldLog, which property C6_TestNotLogged detects:
\* every request is logged.
ShouldLogAlways(isTest) == TRUE

\* Whether executeFlow calls logExecution for the request.
ShouldLog(isTest) == ~isTest

\* executeFlow after runFlowExecution: logExecution is called and not
\* awaited, then the response is built from the result.
executeFlow_respond ==
  /\ pc = "respond"
  /\ pendingLogs' = IF ShouldLog(req.isTest)
                    THEN pendingLogs \cup {LogRecord(flow, inputs, outcome, req.startTime)}
                    ELSE pendingLogs
  /\ Reply(IF outcome.error # Undefined
           THEN errorResponseCode(outcome.error.message, 500, "EXECUTION_ERROR")
           ELSE jsonResponse(outcome.outputs, 200))
  /\ UNCHANGED <<editorVars, concurrent, flows, blocks, execution_logs, redis, nextId,
                 calls, redisUp, now, expires, replaced, clock, testStarts, req,
                 flow, inputs, executionOrder, idx,
                 blockResults, blockInputs, block, outcome, dispatched,
                 upstreamCalls, resolved>>

\* A faulty variant of logExecution_insertOne, which property
\* C12_LogDetached detects: a rejected insert is surfaced to the caller.
logExecution_surfaced ==
  /\ \E log \in pendingLogs :
       /\ pendingLogs' = pendingLogs \ {log}
       /\ \/ execution_logs' = Append(execution_logs, log) /\ UNCHANGED response
          \/ /\ UNCHANGED execution_logs
             /\ response' = errorResponseCode(<<"insert failed">>, 500, "INTERNAL_ERROR")
  /\ UNCHANGED <<editorVars, concurrent, flows, blocks, redis, nextId, calls, redisUp, now, expires,
                 replaced, clock, testStarts, pc, req, flow, inputs, executionOrder, idx, blockResults,
                 blockInputs, block, outcome, dispatched, upstreamCalls, resolved>>

\* logExecution: await collection.insertOne(log); a rejection is caught by
\* .catch(console.error).
logExecution_insertOne ==
  /\ \E log \in pendingLogs :
       /\ pendingLogs' = pendingLogs \ {log}
       /\ \/ execution_logs' = Append(execution_logs, log)
          \/ UNCHANGED execution_logs
  /\ UNCHANGED <<editorVars, concurrent, flows, blocks, redis, nextId, calls, redisUp, now, expires,
                 replaced, clock, testStarts, execVars>>

\* A cache key reaches its TTL (redis.expire(key, 300)) and is dropped.
CacheExpire ==
  /\ \E key \in DOMAIN redis : redis' = CacheDel(redis, {key})
  /\ ExpiresFollow
  /\ UNCHANGED <<editorVars, concurrent, flows, blocks, execution_logs, nextId, pendingLogs,
                 calls, redisUp, now, replaced, clock, testStarts,
                 execVars>>

\* Any execute request: the slug of a stored flow or a slug no flow has.
ExecuteRequest ==
  \E slug \in {doc.slug : doc \in flows} \cup {<<"s", "1">>},
     suffix \in {"", "test"}, payload \in Payloads :
    handleExecuteApi(slug, suffix, payload)

ExecuteSteps ==
  \/ executeFlow_getFlowBySlug
  \/ executeFlow_findOne
  \/ executeFlow_setFlowBySlug
  \/ executeFlow_inputs
  \/ runFlowExecution_continue
  \/ runFlowExecution_resolve
  \/ executeBlock_getBlock
  \/ executeBlock_findOne
  \/ executeBlock_setBlock
  \/ executeBlock_run
  \/ executeApiCall_reply
  \/ runFlowExecution_outputs
  \/ executeFlow_respond
  \/ logExecution_insertOne

(***************************************************************************)
(* The engine on its own: the store holds one published flow, taken from   *)
(* EngineDefinitions, and the block definitions.                           *)
(***************************************************************************)
FlowDoc(id, slug, status, version, def) ==
  [_id |-> ObjectId(id), slug |-> slug, version |-> version, status |-> status,
   blocks |-> def.blocks, connections |-> def.connections,
   inputs |-> def.inputs, outputs |-> def.outputs]

NoConcurrent == [pc |-> "idle", slug |-> <<>>, flow |-> Null]

\* The cache answers, no time has passed and no second request is served.
InitCache ==
  /\ redisUp = TRUE
  /\ now = 0
  /\ expires = [x \in {} |-> 0]
  /\ replaced = {}
  /\ concurrent = NoConcurrent

\* The flow editor store after createNewFlow().
InitEditor ==
  /\ nodes = <<>>
  /\ edges = <<>>
  /\ selectedNodeId = Null
  /\ hasChanges = FALSE
  /\ editorClock = 0

InitExec ==
  /\ clock = 0
  /\ testStarts = {}
  /\ pc = "idle"
  /\ req = NoRequest
  /\ flow = Null
  /\ inputs = EmptyObject
  /\ executionOrder = <<>>
  /\ idx = 1
  /\ blockResults = EmptyObject
  /\ blockInputs = EmptyObject
  /\ block = Null
  /\ outcome = NoOutcome
  /\ response = NoResponse
  /\ dispatched = <<>>
  /\ upstreamCalls = <<>>
  /\ resolved = <<>>

InitEngine ==
  /\ \E def \in EngineDefinitions :
       flows = {FlowDoc(1, <<"s", "1">>, "published", 2, def)}
  /\ blocks = {ApiBlock, TransformBlock, ConditionBlock}
  /\ execution_logs = <<>>
  /\ redis = [x \in {} |-> Null]
  /\ InitCache
  /\ nextId = 2
  /\ pendingLogs = {}
  /\ calls = 0
  /\ InitExec
  /\ InitEditor

NextEngine ==
  \/ clock < MaxEngineRequests /\ ExecuteRequest
  \/ ExecuteSteps

SpecEngine == InitEngine /\ [][NextEngine]_vars

(***************************************************************************)
(* The flows API (handleFlowsApi).  A slug is held as its list of          *)
(* characters; a flow id of the request path is a number, 0 standing for   *)
(* a string new ObjectId(...) rejects.                                     *)
(***************************************************************************)
SlugAlphabet ==
  {"a", "b", "c", "d", "e", "f", "g", "h", "i", "j", "k", "l", "m", "n", "o",
   "p", "q", "r", "s", "t", "u", "v", "w", "x", "y", "z", "0", "1", "2", "3",
   "4", "5", "6", "7", "8", "9", "-"}

\* /^[a-z0-9-]+$/.test(slug)
SlugFormatOk(slug) ==
  /\ Len(slug) >= 1
  /\ \A i \in 1..Len(slug) : slug[i] \in SlugAlphabet

Slug1 == <<"s", "1">>
Slug2 == <<"s", "2">>
BadSlug == <<"S", "_">>
NoSlug == <<>>

\* The definitions the authoring calls store: a transform block fed by a
\* flow input that has a default; an api_call block with a required flow
\* input and a connection to an id that is no block.
DefinitionOne ==
  Definition(<<FlowBlock("a", "b2", <<Mapping("v", FlowInput("x"))>>, FALSE)>>,
             <<>>,
             <<InputDef("x", FALSE, Str("dflt"))>>,
             <<OutputDef("out", "a", "v")>>)
DefinitionTwo ==
  Definition(<<FlowBlock("a", "b1", <<Mapping("id", FlowInput("x"))>>, FALSE)>>,
             <<Connection("a", "z")>>,
             <<InputDef("x", TRUE, Undefined)>>,
             <<OutputDef("out", "a", "email")>>)
AuthoringDefinitions == {DefinitionOne, DefinitionTwo}

\* Bodies of PUT /api/flows/<id>: any subset of slug, status and the
\* definition fields.
NoFields == [x \in {} |-> Undefined]
UpdateBodies ==
  { slugPart @@ statusPart @@ defPart :
      <<slugPart, statusPart, defPart>> \in
        ({NoFields} \cup {[slug |-> sl] : sl \in {Slug2, BadSlug}})
        \X ({NoFields} \cup {[status |-> st] : st \in {"draft", "archived"}})
        \X ({NoFields} \cup {[blocks |-> d.blocks, connections |-> d.connections,
                              inputs |-> d.inputs, outputs |-> d.outputs] :
                               d \in {DefinitionTwo}}) }

\* collection.findOne({ _id: objectId }) and findOne({ slug })
ById(collection, flowId) == {doc \in collection : doc._id = ObjectId(flowId)}
BySlug(collection, slug) == {doc \in collection : doc.slug = slug}

\* cacheService.invalidateFlow(flowId, slug)
invalidateFlow(cache, flowId, slug) ==
  CacheDel(cache, {<<"flow:", flowId>>, SlugKey(slug)})

Unauthorized == errorResponse(<<"Invalid or expired token">>, 401)

\* A call of the flows API arrives: op names the handler.
Call(op) ==
  /\ Idle
  /\ calls < MaxCalls
  /\ calls' = calls + 1
  /\ req' = Request(op, <<>>, FALSE, EmptyObject, 0)
  /\ ResetLocals
  /\ UNCHANGED <<editorVars, concurrent, pc, clock, testStarts, blocks, execution_logs, pendingLogs,
                 redisUp, now, replaced>>

\* The handler returns r without having written anything.
Rejected(r) ==
  /\ response' = r
  /\ UNCHANGED <<flows, redis, nextId>>

createFlow(authenticated, name, slug, def) ==
  /\ Call("createFlow")
  /\ IF ~authenticated THEN Rejected(Unauthorized)
     ELSE IF name = "" \/ slug = NoSlug
     THEN Rejected(errorResponse(<<"Missing required fields: name, slug">>, 400))
     ELSE IF ~SlugFormatOk(slug)
     THEN Rejected(errorResponse(
            <<"Slug must be lowercase alphanumeric with hyphens only">>, 400))
     ELSE IF BySlug(flows, slug) # {}
     THEN Rejected(errorResponse(<<"A flow with this slug already exists">>, 409))
     ELSE /\ flows' = flows \cup {FlowDoc(nextId, slug, "draft", 1, def)}
          /\ nextId' = nextId + 1
          /\ response' = jsonResponse(Str("flow"), 201)
          /\ UNCHANGED redis
  /\ ExpiresFollow

\* { $set: { ...body, updatedAt } }
SetFields(doc, body) ==
  [f \in DOMAIN doc |-> IF f \in DOMAIN body THEN body[f] ELSE doc[f]]

\* A faulty variant of updateFlowInvalidate, which property
\* C5_PublishedOnly detects: the cache is left as it is.
updateFlowInvalidateNothing(cache, flowId, currentFlow, body) == cache

\* The cache after updateFlow has changed currentFlow with body.
updateFlowInvalidate(cache, flowId, currentFlow, body) ==
  IF "slug" \in DOMAIN body /\ body.slug # NoSlug /\ body.slug # currentFlow.slug
  THEN invalidateFlow(invalidateFlow(cache, flowId, currentFlow.slug),
                      flowId, body.slug)
  ELSE invalidateFlow(cache, flowId, currentFlow.slug)

updateFlow(flowId, authenticated, body) ==
  /\ Call("updateFlow")
  /\ IF ~authenticated THEN Rejected(Unauthorized)
     ELSE IF flowId = 0 THEN Rejected(errorResponse(<<"Invalid flow ID">>, 400))
     ELSE IF ById(flows, flowId) = {}
     THEN Rejected(errorResponse(<<"Flow not found">>, 404))
     ELSE LET currentFlow == CHOOSE doc \in flows : doc._id = ObjectId(flowId)
              \* if (body.slug && body.slug !== currentFlow.slug)
              slugChanges == /\ "slug" \in DOMAIN body
                             /\ body.slug # NoSlug
                             /\ body.slug # currentFlow.slug
          IN  IF slugChanges /\ ~SlugFormatOk(body.slug)
              THEN Rejected(errorResponse(
                     <<"Slug must be lowercase alphanumeric with hyphens only">>, 400))
              ELSE IF slugChanges /\ BySlug(flows, body.slug) # {}
              THEN Rejected(errorResponse(
                     <<"A flow with this slug already exists">>, 409))
              ELSE /\ flows' = (flows \ {currentFlow}) \cup {SetFields(currentFlow, body)}
                   /\ redis' = updateFlowInvalidate(redis, flowId, currentFlow, body)
                   /\ response' = jsonResponse(Str("flow"), 200)
                   /\ UNCHANGED nextId
  /\ ExpiresFollow

deleteFlow(flowId, authenticated) ==
  /\ Call("deleteFlow")
  /\ IF ~authenticated THEN Rejected(Unauthorized)
     ELSE IF flowId = 0 THEN Rejected(errorResponse(<<"Invalid flow ID">>, 400))
     ELSE IF ById(flows, flowId) = {}
     THEN Rejected(errorResponse(<<"Flow not found">>, 404))
     ELSE LET doc == CHOOSE d \in flows : d._id = ObjectId(flowId)
          IN  /\ flows' = flows \ {doc}
              /\ redis' = invalidateFlow(redis, flowId, doc.slug)
              /\ response' = jsonResponse(Str("deleted"), 200)
              /\ UNCHANGED nextId
  /\ ExpiresFollow

publishFlow(flowId, authenticated) ==
  /\ Call("publishFlow")
  /\ IF ~authenticated THEN Rejected(Unauthorized)
     ELSE IF flowId = 0 THEN Rejected(errorResponse(<<"Invalid flow ID">>, 400))
     ELSE IF ById(flows, flowId) = {}
     THEN Rejected(errorResponse(<<"Flow not found">>, 404))
     ELSE LET doc == CHOOSE d \in flows : d._id = ObjectId(flowId)
              result == [doc EXCEPT !.status = "published",
                                    !.version = doc.version + 1]
          IN  /\ flows' = (flows \ {doc}) \cup {result}
              /\ redis' = invalidateFlow(redis, flowId, result.slug)
              /\ response' = jsonResponse(Str("flow"), 200)
              /\ UNCHANGED nextId
  /\ ExpiresFollow

cloneFlow(flowId, authenticated, slug) ==
  /\ Call("cloneFlow")
  /\ IF ~authenticated THEN Rejected(Unauthorized)
     ELSE IF slug = NoSlug
     THEN Rejected(errorResponse(<<"slug is required for cloning">>, 400))
     ELSE IF flowId = 0 THEN Rejected(errorResponse(<<"Invalid flow ID">>, 400))
     ELSE IF ById(flows, flowId) = {}
     THEN Rejected(errorResponse(<<"Flow not found">>, 404))
     ELSE IF BySlug(flows, slug) # {}
     THEN Rejected(errorResponse(<<"A flow with this slug already exists">>, 409))
     ELSE LET sourceFlow == CHOOSE d \in flows : d._id = ObjectId(flowId)
          IN  /\ flows' = flows \cup {FlowDoc(nextId, slug, "draft", 1, sourceFlow)}
              /\ nextId' = nextId + 1
              /\ response' = jsonResponse(Str("flow"), 201)
              /\ UNCHANGED redis
  /\ ExpiresFollow

\* The ids a request path can carry: 0 (malformed), the ids issued so far
\* and one that was never issued.
FlowIds == 0..nextId

AuthoringNext ==
  \/ \E auth \in BOOLEAN, name \in {"", "flow"}, slug \in {Slug1, Slug2, BadSlug, NoSlug},
        def \in AuthoringDefinitions : createFlow(auth, name, slug, def)
  \/ \E id \in FlowIds, auth \in BOOLEAN, body \in UpdateBodies :
       updateFlow(id, auth, body)
  \/ \E id \in FlowIds, auth \in BOOLEAN : deleteFlow(id, auth)
  \/ \E id \in FlowIds, auth \in BOOLEAN : publishFlow(id, auth)
  \/ \E id \in FlowIds, auth \in BOOLEAN, slug \in {Slug1, Slug2, BadSlug, NoSlug} :
       cloneFlow(id, auth, slug)

(***************************************************************************)
(* The server: an empty store and cache; the calls of the flows API and    *)
(* the execute requests are served one at a time, while the log writes     *)
(* and the cache expiry go on in the background.                           *)
(***************************************************************************)
Init ==
  /\ flows = {}
  /\ blocks = {ApiBlock, TransformBlock, ConditionBlock}
  /\ execution_logs = <<>>
  /\ redis = [x \in {} |-> Null]
  /\ InitCache
  /\ nextId = 1
  /\ pendingLogs = {}
  /\ calls = 0
  /\ InitExec
  /\ InitEditor

Next ==
  \/ AuthoringNext
  \/ ExecuteRequest
  \/ ExecuteSteps
  \/ CacheExpire

Spec == Init /\ [][Next]_vars

(***************************************************************************)
(* The planner on its own: the engine on a published flow whose three      *)
(* blocks are stored in any order and whose connections are any list of    *)
(* at most MaxConnections connections between the blocks, or one of two    *)
(* lists with a connection to or from an id no block has.                  *)
(***************************************************************************)
MaxConnections == 2

PlannerBlock(id) ==
  FlowBlock(id, IF id = "a" THEN "b1" ELSE "b2",
            <<Mapping("id", FlowInput("x"))>>, FALSE)

PlannerBlockLists ==
  { <<PlannerBlock(x), PlannerBlock(y), PlannerBlock(z)>> :
      <<x, y, z>> \in { t \in {"a", "b", "c"} \X {"a", "b", "c"} \X {"a", "b", "c"} :
                          t[1] # t[2] /\ t[1] # t[3] /\ t[2] # t[3] } }

PlannerConnections ==
  { Connection(from, to) : <<from, to>> \in {"a", "b", "c"} \X {"a", "b", "c"} }

PlannerConnectionLists ==
  UNION { [1..n -> PlannerConnections] : n \in 0..MaxConnections }
    \cup { <<Connection("a", "z"), Connection("z", "b")>>,
           <<Connection("c", "z")>> }

PlannerDefinitions ==
  { Definition(bl, cn, <<InputDef("x", FALSE, Str("dflt"))>>, <<>>) :
      <<bl, cn>> \in PlannerBlockLists \X PlannerConnectionLists }

InitPlanner ==
  /\ \E def \in PlannerDefinitions :
       flows = {FlowDoc(1, <<"s", "1">>, "published", 2, def)}
  /\ blocks = {ApiBlock, TransformBlock, ConditionBlock}
  /\ execution_logs = <<>>
  /\ redis = [x \in {} |-> Null]
  /\ InitCache
  /\ nextId = 2
  /\ pendingLogs = {}
  /\ calls = 0
  /\ InitExec
  /\ InitEditor

\* One test request for the flow, then the steps of the engine.
NextPlanner ==
  \/ clock < MaxEngineRequests /\ handleExecuteApi(<<"s", "1">>, "test", EmptyObject)
  \/ clock < MaxEngineRequests /\ handleExecuteApi(<<"s", "1">>, "", EmptyObject)
  \/ ExecuteSteps

SpecPlanner == InitPlanner /\ [][NextPlanner]_vars


(***************************************************************************)
(* The engine with a cache that can fail: the connection to redis is lost  *)
(* and restored at any time.                                               *)
(***************************************************************************)
\* The commands sent to redis start or stop failing.
RedisFlips ==
  /\ redisUp' = ~redisUp
  /\ UNCHANGED <<editorVars, concurrent, flows, blocks, execution_logs, redis, nextId, pendingLogs,
                 calls, now, expires, replaced, clock, testStarts, execVars>>

NextCache ==
  \/ NextEngine
  \/ RedisFlips

SpecCache == InitEngine /\ [][NextCache]_vars

(***************************************************************************)
(* The engine while the flow it serves is changed: the handlers of the     *)
(* server run concurrently, so that a call of updateFlow or deleteFlow is  *)
(* served between two awaits of an execute request.  Time passes, and a    *)
(* cache key is gone when its time to live is over.                        *)
(***************************************************************************)
MaxTime == 3
MaxDuring == 1

\* PUT /api/flows/<id> with a valid token, served while execute requests
\* are: the document is replaced and the cache keys of the flow deleted.
updateFlow_during(flowId, body) ==
  /\ calls < MaxDuring
  /\ calls' = calls + 1
  /\ ById(flows, flowId) # {}
  /\ LET currentFlow == CHOOSE doc \in flows : doc._id = ObjectId(flowId)
     IN  /\ flows' = (flows \ {currentFlow}) \cup {SetFields(currentFlow, body)}
         /\ redis' = updateFlowInvalidate(redis, flowId, currentFlow, body)
         /\ replaced' = replaced \cup {[doc |-> JsonFlow(currentFlow), at |-> now]}
  /\ ExpiresFollow
  /\ UNCHANGED <<editorVars, concurrent, blocks, execution_logs, nextId, pendingLogs, redisUp, now,
                 clock, testStarts, execVars>>

\* DELETE /api/flows/<id> with a valid token, served while execute requests
\* are.
deleteFlow_during(flowId) ==
  /\ calls < MaxDuring
  /\ calls' = calls + 1
  /\ ById(flows, flowId) # {}
  /\ LET doc == CHOOSE d \in flows : d._id = ObjectId(flowId)
     IN  /\ flows' = flows \ {doc}
         /\ redis' = invalidateFlow(redis, flowId, doc.slug)
         /\ replaced' = replaced \cup {[doc |-> JsonFlow(doc), at |-> now]}
  /\ ExpiresFollow
  /\ UNCHANGED <<editorVars, concurrent, blocks, execution_logs, nextId, pendingLogs, redisUp, now,
                 clock, testStarts, execVars>>

\* TimeUnit seconds pass: the keys whose time to live is over are gone.
Tick ==
  /\ now < MaxTime
  /\ now' = now + 1
  /\ redis' = [key \in {k \in DOMAIN redis : k \in DOMAIN expires => expires[k] > now'}
                 |-> redis[key]]
  /\ ExpiresFollow
  /\ UNCHANGED <<editorVars, concurrent, flows, blocks, execution_logs, nextId, pendingLogs, calls,
                 redisUp, replaced, clock, testStarts, execVars>>

\* The bodies of the concurrent updates: a new definition, or archived.
DuringBodies ==
  { [blocks |-> DefinitionTwo.blocks, connections |-> DefinitionTwo.connections,
     inputs |-> DefinitionTwo.inputs, outputs |-> DefinitionTwo.outputs],
    [status |-> "archived"] }

InitStale ==
  /\ flows = {FlowDoc(1, Slug1, "published", 2, DefinitionOne)}
  /\ blocks = {ApiBlock, TransformBlock, ConditionBlock}
  /\ execution_logs = <<>>
  /\ redis = [x \in {} |-> Null]
  /\ InitCache
  /\ nextId = 2
  /\ pendingLogs = {}
  /\ calls = 0
  /\ InitExec
  /\ InitEditor

NextStale ==
  \/ ExecuteRequest
  \/ ExecuteSteps
  \/ \E body \in DuringBodies : updateFlow_during(1, body)
  \/ deleteFlow_during(1)
  \/ Tick

SpecStale == InitStale /\ [][NextStale]_vars

(***************************************************************************)
(* The engine with its scheduling: a step of the server that can be taken  *)
(* is taken, since the event loop runs every continuation that is ready.   *)
(* Nothing makes an upstream server reply: fetch() is given a signal only  *)
(* when the block instance has a config.timeout, which the instances here  *)
(* do not have, and runFlowExecution sets no timer of its own.             *)
(***************************************************************************)
ServerSteps ==
  \/ executeFlow_getFlowBySlug
  \/ executeFlow_findOne
  \/ executeFlow_setFlowBySlug
  \/ executeFlow_inputs
  \/ runFlowExecution_continue
  \/ runFlowExecution_resolve
  \/ executeBlock_getBlock
  \/ executeBlock_findOne
  \/ executeBlock_setBlock
  \/ executeBlock_run
  \/ runFlowExecution_outputs
  \/ executeFlow_respond
  \/ logExecution_insertOne

\* The store holds one published flow, whose block is an api_call.
InitLive ==
  /\ flows = {FlowDoc(1, Slug1, "published", 2, DefinitionTwo)}
  /\ blocks = {ApiBlock, TransformBlock, ConditionBlock}
  /\ execution_logs = <<>>
  /\ redis = [x \in {} |-> Null]
  /\ InitCache
  /\ nextId = 2
  /\ pendingLogs = {}
  /\ calls = 0
  /\ InitExec
  /\ InitEditor

NextLive ==
  \/ ExecuteRequest
  \/ ExecuteSteps

SpecLive == InitLive /\ [][NextLive]_vars /\ WF_vars(ServerSteps)

(***************************************************************************)
(* The flows API on its own, with two more request bodies for updateFlow:  *)
(* the body is not validated, so it can name any field of the document.    *)
(***************************************************************************)
UnvalidatedBodies == { [version |-> 1], [slug |-> NoSlug] }

NextAuthoring ==
  \/ AuthoringNext
  \/ \E id \in FlowIds, body \in UnvalidatedBodies : updateFlow(id, TRUE, body)

SpecAuthoring == Init /\ [][NextAuthoring]_vars

(***************************************************************************)
(* The execute endpoint with its logs: GET /api/execute/<slug>/logs on a  *)
(* store that holds one published flow.                                    *)
(***************************************************************************)
\* .limit(100)
LogLimit == 100

RECURSIVE SortByStartedAtDesc(_)
\* .sort({ 'performance.startedAt': -1 })
SortByStartedAtDesc(logs) ==
  IF logs = {} THEN <<>>
  ELSE LET latest == CHOOSE l \in logs : \A m \in logs : m.startedAt <= l.startedAt
       IN  <<latest>> \o SortByStartedAtDesc(logs \ {latest})

\* logCollection.find({ flowId: flow._id?.toString() }): the filter value
\* is a string, which equals a stored flowId only when that is a string.
FindLogs(collection, flowId) ==
  {collection[i] : i \in {j \in 1..Len(collection) :
                            collection[j].flowId = IdString(flowId)}}

\* getExecutionLogs(slug)
getExecutionLogs(slug) ==
  /\ Idle
  /\ req' = Request("logs", slug, FALSE, EmptyObject, 0)
  /\ ResetLocals
  /\ LET found == BySlug(flows, slug)
     IN  IF found = {}
         THEN response' = errorResponse(<<"Flow not found">>, 404)
         ELSE LET f == CHOOSE doc \in found : TRUE
                  logs == SortByStartedAtDesc(FindLogs(execution_logs, f._id))
              IN  response' =
                    jsonResponse(Arr(SubSeq(logs, 1,
                                            IF Len(logs) < LogLimit THEN Len(logs)
                                            ELSE LogLimit)), 200)
  /\ UNCHANGED <<editorVars, storeVars, pc, clock, testStarts>>

InitLogs ==
  /\ flows = {FlowDoc(1, Slug1, "published", 2, DefinitionTwo)}
  /\ blocks = {ApiBlock, TransformBlock, ConditionBlock}
  /\ execution_logs = <<>>
  /\ redis = [x \in {} |-> Null]
  /\ InitCache
  /\ nextId = 2
  /\ pendingLogs = {}
  /\ calls = 0
  /\ InitExec
  /\ InitEditor

NextLogs ==
  \/ ExecuteRequest
  \/ ExecuteSteps
  \/ \E slug \in {Slug1, Slug2} : getExecutionLogs(slug)

SpecLogs == InitLogs /\ [][NextLogs]_vars

(***************************************************************************)
(* The output projector on its own: the engine on a published flow whose   *)
(* api_call block declares one output, with any path of OutputPaths.       *)
(***************************************************************************)
\* '$', 'email', 'user.email', 'items[0].id', 'items[1]', 'items[2]',
\* 'user[0]', 'email[0]', 'none.x', 'missing.x', 'email.x', 'items.id',
\* 'missing[0]'
OutputPaths ==
  { RootPath,
    Path(<<Key("email")>>),
    Path(<<Key("user"), Key("email")>>),
    Path(<<KeyAt("items", 0), Key("id")>>),
    Path(<<KeyAt("items", 1)>>),
    Path(<<KeyAt("items", 2)>>),
    Path(<<KeyAt("user", 0)>>),
    Path(<<KeyAt("email", 0)>>),
    Path(<<Key("none"), Key("x")>>),
    Path(<<Key("missing"), Key("x")>>),
    Path(<<Key("email"), Key("x")>>),
    Path(<<Key("items"), Key("id")>>),
    Path(<<KeyAt("missing", 0)>>) }

PathBlock(path) ==
  [_id |-> "b1", type |-> "api_call",
   outputs |-> << [name |-> "email", path |-> path] >>]

InitPath ==
  /\ flows = {FlowDoc(1, Slug1, "published", 2, DefinitionTwo)}
  /\ \E path \in OutputPaths : blocks = {PathBlock(path), TransformBlock, ConditionBlock}
  /\ execution_logs = <<>>
  /\ redis = [x \in {} |-> Null]
  /\ InitCache
  /\ nextId = 2
  /\ pendingLogs = {}
  /\ calls = 0
  /\ InitExec
  /\ InitEditor

NextPath ==
  \/ ExecuteRequest
  \/ ExecuteSteps

SpecPath == InitPath /\ [][NextPath]_vars

(***************************************************************************)
(* Two execute requests at a time: while the request of req is served, a   *)
(* second one goes through the first awaits of executeFlow, the lookup of  *)
(* the flow in the cache and in the store and the population of the cache. *)
(* What it does afterwards leaves the cache entry of the flow alone.       *)
(***************************************************************************)
othersUnchanged ==
  UNCHANGED <<editorVars, flows, blocks, execution_logs, nextId, pendingLogs, calls,
              redisUp, now, replaced, clock, testStarts, execVars>>

\* handleExecuteApi for the second request
concurrent_handleExecuteApi(slug) ==
  /\ concurrent = NoConcurrent
  /\ concurrent' = [pc |-> "getFlowBySlug", slug |-> slug, flow |-> Null]
  /\ UNCHANGED <<redis, expires>>
  /\ othersUnchanged

\* let flow = await cacheService.getFlowBySlug(slug)
concurrent_getFlowBySlug ==
  /\ concurrent.pc = "getFlowBySlug"
  /\ LET cached == CacheGet(SlugKey(concurrent.slug))
     IN  concurrent' = [concurrent EXCEPT
                          !.flow = cached,
                          !.pc = IF cached # Null THEN "loaded" ELSE "findOne"]
  /\ UNCHANGED <<redis, expires>>
  /\ othersUnchanged

\* flow = await collection.findOne({ slug, status: 'published' })
concurrent_findOne ==
  /\ concurrent.pc = "findOne"
  /\ LET found == FindPublished(flows, concurrent.slug)
     IN  IF found = {}
         THEN concurrent' = [concurrent EXCEPT !.pc = "notFound"]
         ELSE \E doc \in found :
                concurrent' = [concurrent EXCEPT !.flow = doc,
                                                 !.pc = "setFlowBySlug"]
  /\ UNCHANGED <<redis, expires>>
  /\ othersUnchanged

\* await cacheService.setFlowBySlug(slug, flow)
concurrent_setFlowBySlug ==
  /\ concurrent.pc = "setFlowBySlug"
  /\ IF redisUp
     THEN /\ redis' = CacheSet(redis, SlugKey(concurrent.slug),
                               JsonFlow(concurrent.flow))
          /\ expires' = CacheSet(expires, SlugKey(concurrent.slug), now + TTL)
          /\ concurrent' = [concurrent EXCEPT !.pc = "loaded"]
     ELSE /\ concurrent' = [concurrent EXCEPT !.pc = "failed"]
          /\ UNCHANGED <<redis, expires>>
  /\ othersUnchanged

InitConcurrent ==
  /\ flows = {FlowDoc(1, Slug1, "published", 2, DefinitionTwo)}
  /\ blocks = {ApiBlock, TransformBlock, ConditionBlock}
  /\ execution_logs = <<>>
  /\ redis = [x \in {} |-> Null]
  /\ InitCache
  /\ nextId = 2
  /\ pendingLogs = {}
  /\ calls = 0
  /\ InitExec
  /\ InitEditor

NextConcurrent ==
  \/ ExecuteRequest
  \/ ExecuteSteps
  \/ \E slug \in {Slug1, Slug2} : concurrent_handleExecuteApi(slug)
  \/ concurrent_getFlowBySlug
  \/ concurrent_findOne
  \/ concurrent_setFlowBySlug

SpecConcurrent == InitConcurrent /\ [][NextConcurrent]_vars

(***************************************************************************)
(* The blocks API (handleBlocksApi), DELETE /api/blocks/<id>, and the      *)
(* server called without a token that verifies: the store holds one        *)
(* published flow and the block definitions, execute requests are served   *)
(* and fill the cache, and every call of the flows and blocks APIs comes   *)
(* without a valid bearer token.                                           *)
(***************************************************************************)
\* deleteBlock(blockId): the handler is not given the request, and
\* handleBlocksApi calls it without calling authenticate.
deleteBlock(blockId, authenticated) ==
  /\ Idle
  /\ calls < MaxCalls
  /\ calls' = calls + 1
  /\ req' = Request("deleteBlock", <<>>, FALSE, EmptyObject, 0)
  /\ ResetLocals
  /\ IF blockId \notin WellFormedIds
     THEN /\ response' = errorResponse(<<"Invalid block ID">>, 400)
          /\ UNCHANGED <<blocks, redis>>
     ELSE IF ~\E b \in blocks : b._id = blockId
     THEN /\ response' = errorResponse(<<"Block not found">>, 404)
          /\ UNCHANGED <<blocks, redis>>
     ELSE /\ blocks' = {b \in blocks : b._id # blockId}
          /\ redis' = CacheDel(redis, {BlockKey(blockId)})
          /\ response' = jsonResponse(Str("deleted"), 200)
  /\ ExpiresFollow
  /\ UNCHANGED <<editorVars, flows, execution_logs, nextId, pendingLogs, redisUp, now,
                 replaced, concurrent, pc, clock, testStarts>>

UnauthenticatedCalls ==
  \/ \E name \in {"", "flow"}, slug \in {Slug1, Slug2, BadSlug, NoSlug},
        def \in AuthoringDefinitions : createFlow(FALSE, name, slug, def)
  \/ \E id \in FlowIds, body \in UpdateBodies : updateFlow(id, FALSE, body)
  \/ \E id \in FlowIds : deleteFlow(id, FALSE)
  \/ \E id \in FlowIds : publishFlow(id, FALSE)
  \/ \E id \in FlowIds, slug \in {Slug1, Slug2, BadSlug, NoSlug} :
       cloneFlow(id, FALSE, slug)
  \/ \E id \in {"b1", "b9", MalformedId} : deleteBlock(id, FALSE)

InitUnauthenticated ==
  /\ flows = {FlowDoc(1, Slug1, "published", 2, DefinitionTwo)}
  /\ blocks = {ApiBlock, TransformBlock, ConditionBlock}
  /\ execution_logs = <<>>
  /\ redis = [x \in {} |-> Null]
  /\ InitCache
  /\ nextId = 2
  /\ pendingLogs = {}
  /\ calls = 0
  /\ InitExec
  /\ InitEditor

NextUnauthenticated ==
  \/ ExecuteRequest
  \/ ExecuteSteps
  \/ UnauthenticatedCalls

SpecUnauthenticated == InitUnauthenticated /\ [][NextUnauthenticated]_vars

(***************************************************************************)
(* Two calls of the flows API at a time: while the calls of AuthoringNext  *)
(* are served, a second createFlow call with a valid token and body goes   *)
(* through its two awaits, the findOne of the duplicate check and the      *)
(* insertOne.                                                              *)
(***************************************************************************)
\* const existing = await collection.findOne({ slug: body.slug })
concurrent_createFlow_findOne(slug) ==
  /\ concurrent = NoConcurrent
  /\ SlugFormatOk(slug)
  /\ concurrent' = [pc |-> IF BySlug(flows, slug) # {} THEN "conflict" ELSE "insertOne",
                    slug |-> slug, flow |-> Null]
  /\ UNCHANGED <<redis, expires>>
  /\ othersUnchanged

\* const result = await collection.insertOne(flow)
concurrent_createFlow_insertOne ==
  /\ concurrent.pc = "insertOne"
  /\ flows' = flows \cup {FlowDoc(nextId, concurrent.slug, "draft", 1, DefinitionOne)}
  /\ nextId' = nextId + 1
  /\ concurrent' = [concurrent EXCEPT !.pc = "created"]
  /\ UNCHANGED <<editorVars, blocks, execution_logs, redis, expires, pendingLogs, calls,
                 redisUp, now, replaced, clock, testStarts, execVars>>

NextRace ==
  \/ AuthoringNext
  \/ \E slug \in {Slug1, Slug2} : concurrent_createFlow_findOne(slug)
  \/ concurrent_createFlow_insertOne

SpecRace == Init /\ [][NextRace]_vars

(***************************************************************************)
(* The flow editor store (packages/web/src/stores/flowEditor.ts).  A node  *)
(* is held as its id and the id of its block definition, an edge as its    *)
(* id, source and target.  Date.now() returns a time that never goes back  *)
(* and may be the same for two calls.                                      *)
(***************************************************************************)
MaxEditorTime == 2
MaxNodes == 2
MaxEdges == 2

\* The node ids the callers of the store can name: those addNode can have
\* returned, and one it never returned.
NodeIdsNamed == {<<"node_", t>> : t \in 1..MaxEditorTime} \cup {<<"node_", 0>>}

serverUnchanged == UNCHANGED <<storeVars, execVars, clock, testStarts>>

addNode(blockDef, time) ==
  /\ Len(nodes) < MaxNodes
  /\ time >= editorClock
  /\ editorClock' = time
  /\ nodes' = Append(nodes, [id |-> <<"node_", time>>, type |-> blockDef.type,
                             blockId |-> blockDef._id])
  /\ hasChanges' = TRUE
  /\ UNCHANGED <<edges, selectedNodeId>>
  /\ serverUnchanged

removeNode(nodeId) ==
  /\ nodes' = SelectSeq(nodes, LAMBDA n : n.id # nodeId)
  /\ edges' = SelectSeq(edges, LAMBDA e : e.source # nodeId /\ e.target # nodeId)
  /\ selectedNodeId' = IF selectedNodeId = Str(nodeId) THEN Null ELSE selectedNodeId
  /\ hasChanges' = TRUE
  /\ UNCHANGED editorClock
  /\ serverUnchanged

addEdge(source, target, time) ==
  /\ Len(edges) < MaxEdges
  /\ time >= editorClock
  /\ editorClock' = time
  /\ IF \E e \in Range(edges) : e.source = source /\ e.target = target
     THEN UNCHANGED <<edges, hasChanges>>
     ELSE /\ edges' = Append(edges, [id |-> <<"edge_", time>>, source |-> source,
                                     target |-> target])
          /\ hasChanges' = TRUE
  /\ UNCHANGED <<nodes, selectedNodeId>>
  /\ serverUnchanged

removeEdge(edgeId) ==
  /\ edges' = SelectSeq(edges, LAMBDA e : e.id # edgeId)
  /\ hasChanges' = TRUE
  /\ UNCHANGED <<nodes, selectedNodeId, editorClock>>
  /\ serverUnchanged

selectNode(nodeId) ==
  /\ selectedNodeId' = nodeId
  /\ UNCHANGED <<nodes, edges, hasChanges, editorClock>>
  /\ serverUnchanged

NextEditor ==
  \/ \E blockDef \in blocks, time \in 1..MaxEditorTime : addNode(blockDef, time)
  \/ \E nodeId \in NodeIdsNamed : removeNode(nodeId)
  \/ \E source, target \in NodeIdsNamed, time \in 1..MaxEditorTime :
       addEdge(source, target, time)
  \/ \E time \in 1..MaxEditorTime : removeEdge(<<"edge_", time>>)
  \/ \E nodeId \in {Null} \cup {Str(id) : id \in NodeIdsNamed} : selectNode(nodeId)

SpecEditor == Init /\ [][NextEditor]_vars

(***************************************************************************)
(* Properties.                                                             *)
(***************************************************************************)
\* The execute request req has been answered.
Responded == pc = "idle" /\ req.op = "execute" /\ response # NoResponse

\* The execute request req has loaded its flow.
Loaded == req.op = "execute" /\ flow # Null

\* The pairs <<from, to>> such that a path of one or more connections leads
\* from from to to.
RECURSIVE Closure(_, _)
Closure(pairs, n) ==
  IF n = 0 THEN pairs
  ELSE Closure(pairs \cup {<<p[1], q[2]>> : <<p, q>> \in
                             {<<p, q>> \in pairs \X pairs : p[2] = q[1]}},
               n - 1)
Paths(connections) ==
  Closure({<<c.fromBlockId, c.toBlockId>> : c \in Range(connections)},
          Len(connections))
HasCycle(connections) == \E p \in Paths(connections) : p[1] = p[2]

\* The block instance of the loaded flow with the given id.
Instance(id) == CHOOSE b \in Range(flow.blocks) : b.id = id

\* A declared input the payload of req lacks.
Omitted(input) == Prop(req.payload, input.name) = Undefined

\* C1: for a flow whose connection graph contains a cycle, an execute
\* request (that passes input validation) is answered 400 FLOW_INVALID and
\* no block is dispatched, hence no upstream call is made.
C1_CycleRejected ==
  (Responded /\ Loaded /\ HasCycle(flow.connections)
     /\ ~\E input \in Range(flow.inputs) : input.required /\ Omitted(input))
  => /\ response.status = 400
     /\ response.code = "FLOW_INVALID"
     /\ dispatched = <<>>
     /\ upstreamCalls = <<>>

\* C2: whenever the input mappings of a block b are resolved, every block a
\* with a connection a -> b already has its result in context.blockResults.
C2_PredecessorRecorded ==
  Loaded =>
    \A i \in 1..Len(resolved) :
      \A c \in Range(flow.connections) :
        c.toBlockId = resolved[i].id => c.fromBlockId \in resolved[i].recorded

\* C3: once a block without continueOnError has a failure result, it is the
\* last block dispatched and the execution returns an error naming it.
C3_FailureStops ==
  Loaded =>
    \A id \in DOMAIN blockResults :
      (blockResults[id].status = "failure" /\ ~Instance(id).config.continueOnError)
      => /\ dispatched[Len(dispatched)] = id
         /\ outcome.error # Undefined
         /\ outcome.error.blockId = id

\* C4 (the part on successors): when a block with continueOnError has a
\* failure result, an input of a later block that only a block_output
\* mapping from that block targets is undefined in the resolved inputs.
C4_FailedOutputUndefined ==
  Loaded =>
    \A i \in 1..Len(resolved) :
      LET mappings == Instance(resolved[i].id).inputMappings
      IN  \A j \in 1..Len(mappings) :
            LET from == mappings[j].source.blockId
            IN  ( /\ mappings[j].source.type = "block_output"
                  /\ from \in resolved[i].recorded
                  /\ blockResults[from].status = "failure"
                  /\ Instance(from).config.continueOnError
                  /\ \A h \in 1..Len(mappings) :
                       mappings[h].targetInput = mappings[j].targetInput => h = j )
                => Prop(resolved[i].inputs, mappings[j].targetInput) = Undefined

C6_TestNotLogged ==
  \A log \in pendingLogs \cup Range(execution_logs) : log.startedAt \notin testStarts

\* C6: a test request has run blocks and has been answered.
C6_Witness ==
  /\ Responded
  /\ req.isTest
  /\ req.startTime \in testStarts
  /\ dispatched # <<>>
  /\ response.status \in {200, 500}

\* The blocks collection holds the definition with this id.
Found(blockId) == \E doc \in blocks : doc._id = blockId

\* The result is {status: success, outputs: {_test: true, blockId}}.
IsSynthetic(result, blockId) ==
  /\ result.status = "success"
  /\ result.outputs = Obj([_test |-> Bool(TRUE), blockId |-> Str(blockId)])

C8_InputMissing ==
  (Responded /\ Loaded
     /\ \E input \in Range(flow.inputs) : input.required /\ Omitted(input))
  => /\ response.status = 400
     /\ response.code = "INPUT_MISSING"
     /\ dispatched = <<>>
     /\ upstreamCalls = <<>>

\* The mapping at position j of mappings is the last one for its target.
Effective(mappings, j) ==
  \A h \in 1..Len(mappings) :
    mappings[h].targetInput = mappings[j].targetInput => h <= j

Lookup(decl) ==
  IF decl.sourceBlockId \in DOMAIN blockResults
     /\ blockResults[decl.sourceBlockId].outputs # Undefined
  THEN Prop(blockResults[decl.sourceBlockId].outputs.v, decl.sourceOutput)
  ELSE Undefined

\* C10: in the answer of an execution that reached the projection, every
\* key is the name of a declared output and carries the value of its lookup,
\* and a declared output whose lookup misses has no key (not null).
C10_ProjectedOutputs ==
  (Responded /\ Loaded /\ outcome.outputs # Undefined) =>
    /\ response.status = 200
    /\ response.data.k = "object"
    /\ \A key \in DOMAIN response.data.v :
         \E decl \in Range(flow.outputs) :
           /\ decl.name = key
           /\ Lookup(decl) # Undefined
           /\ response.data.v[key] = Lookup(decl)
    /\ \A decl \in Range(flow.outputs) :
         Lookup(decl) = Undefined => decl.name \notin DOMAIN response.data.v

\* C10: an answer carries the output of block a and lacks the outputs whose
\* source block has no result or no such output.
C10_Witness ==
  /\ Responded /\ Loaded /\ outcome.outputs # Undefined
  /\ "reply" \in DOMAIN response.data.v
  /\ Lookup(CHOOSE decl \in Range(flow.outputs) : decl.name = "lost") = Undefined
  /\ "lost" \notin DOMAIN response.data.v
  /\ "none" \notin DOMAIN response.data.v

\* The position of x in the list s, 0 when x is not in it.
PositionIn(s, x) ==
  IF \E i \in 1..Len(s) : s[i] = x
  THEN CHOOSE i \in 1..Len(s) : s[i] = x /\ \A h \in 1..(i - 1) : s[h] # x
  ELSE 0

\* The position in order of the last block that x waits for: x is ready once
\* the block at that position has been emitted (0: ready from the start).
ReadyAt(connections, order, x) ==
  LET waits == {PositionIn(order, c.fromBlockId) :
                  c \in {d \in Range(connections) : d.toBlockId = x}}
  IN  IF waits = {} THEN 0 ELSE CHOOSE p \in waits : \A q \in waits : q <= p

\* The plan of the request has been computed and holds every block once.
PlannedAll ==
  /\ Loaded
  /\ pc = "block"
  /\ Len(executionOrder) = Len(flow.blocks)
  /\ Range(executionOrder) = {b.id : b \in Range(flow.blocks)}

\* C11: in a plan that holds every block, two blocks that are ready at the
\* same time (both from the start, or both once the same block has been
\* emitted) are emitted in the order in which the flow stores them; this
\* covers the blocks without connections.
C11_InsertionOrderTieBreak ==
  PlannedAll =>
    \A i, j \in 1..Len(executionOrder) :
      ( /\ i < j
        /\ ReadyAt(flow.connections, executionOrder, executionOrder[i])
             = ReadyAt(flow.connections, executionOrder, executionOrder[j]) )
      => PositionIn(SeqMap(LAMBDA b : b.id, flow.blocks), executionOrder[i])
           < PositionIn(SeqMap(LAMBDA b : b.id, flow.blocks), executionOrder[j])

\* A step in which a log write ends: the insert has succeeded or failed.
LogWriteEnds == pendingLogs' # pendingLogs /\ pendingLogs' \subseteq pendingLogs

\* C12: a step that ends a log write, as a success or as a failure, leaves
\* the response and the progress of the request in service as they are; the
\* response is sent in the step that starts the write.
C12_LogDetached ==
  [][ /\ LogWriteEnds => (response' = response /\ pc' = pc /\ req' = req)
      /\ (pendingLogs' # pendingLogs /\ ~LogWriteEnds)
           => (response' # NoResponse /\ pc' = "idle") ]_vars

\* C12: a request that is not a test has been answered while its log record
\* is still waiting to be written.
C12_Witness ==
  /\ Responded
  /\ ~req.isTest
  /\ response.status \in {200, 500}
  /\ \E log \in pendingLogs : log.startedAt = req.startTime

\* The log records of the request in service, written or being written.
LogsOfRequest ==
  {log \in pendingLogs : log.startedAt = req.startTime}
    \cup {log \in Range(execution_logs) : log.startedAt = req.startTime}

\* C13: once a request that is not a test and names a published flow has
\* been answered, exactly one log record of it is written or being written.
C13_OneLogPerExecution ==
  (Responded /\ Loaded /\ ~req.isTest) => Cardinality(LogsOfRequest) = 1

\* C14: whatever the cache does, a request is not answered with the error of
\* a cache command, and every block it has dispatched whose definition is in
\* the blocks collection has a result, as with a working cache.
C14_CacheErrorNonFatal ==
  (Responded /\ Loaded) =>
    /\ response.code # "INTERNAL_ERROR"
    /\ \A id \in Range(dispatched) :
         Found(Instance(id).blockId) => id \in DOMAIN blockResults

\* C15: the definition an execute request loads, from the cache or from the
\* store, is the stored one, or one that was replaced or removed at most one
\* time to live earlier.
C15_BoundedStaleness ==
  [][ (req.op = "execute" /\ flow = Null /\ flow' # Null) =>
        \/ flow' \in flows
        \/ \E doc \in flows : flow' = JsonFlow(doc)
        \/ \E r \in replaced : r.doc = JsonFlow(flow') /\ now - r.at <= TTL ]_vars

\* C16: every execute request eventually returns a response, also when an
\* upstream call never completes.
C16_EveryRequestReturns ==
  (req.op = "execute" /\ pc # "idle") ~> (pc = "idle" /\ response # NoResponse)

\* Without an upstream call in flight, every execute request returns.
C16_ReturnsUnlessUpstreamHangs ==
  (req.op = "execute" /\ pc # "idle") ~> (pc \in {"idle", "fetch"})

\* The number of fetch() calls the request has made for the instance id.
Attempts(id) ==
  Cardinality({i \in 1..Len(upstreamCalls) : upstreamCalls[i] = id})

\* The upstream call failed at transport level, or was answered 5xx / 4xx.
TransportFailure(result) == result.error = Error(<<"API call failed">>)
Answered(result, statuses) ==
  result.rawResponse # Undefined /\ result.rawResponse.statusCode \in statuses

\* C17: an api_call instance whose recorded result is a transport failure
\* or a 5xx answer has been attempted config.retryCount times in total; one
\* whose result is a 4xx answer has been attempted once.
C17_Retried ==
  Loaded =>
    \A id \in Range(upstreamCalls) \cap DOMAIN blockResults :
      /\ (TransportFailure(blockResults[id]) \/ Answered(blockResults[id], 500..599))
           => Attempts(id) = Instance(id).config.retryCount
      /\ Answered(blockResults[id], 400..499) => Attempts(id) = 1

\* The upstream call was answered, with a body that is JSON or not.
Completed(result) == ~TransportFailure(result)

\* C18: the result of an upstream call that was answered records the raw
\* response and no error, and its status is success exactly when the HTTP
\* status is 2xx.
C18_ResponseRecorded ==
  Loaded =>
    \A id \in Range(upstreamCalls) \cap DOMAIN blockResults :
      Completed(blockResults[id]) =>
        /\ blockResults[id].rawResponse # Undefined
        /\ blockResults[id].error = Undefined
        /\ blockResults[id].status = "success"
             <=> blockResults[id].rawResponse.statusCode \in 200..299

\* The same for the answers whose body is JSON.
C18_JsonResponseRecorded ==
  Loaded =>
    \A id \in Range(upstreamCalls) \cap DOMAIN blockResults :
      (Completed(blockResults[id])
         /\ blockResults[id].error # Error(<<"JSON Parse error">>)) =>
        /\ blockResults[id].rawResponse # Undefined
        /\ blockResults[id].error = Undefined
        /\ blockResults[id].status = "success"
             <=> blockResults[id].rawResponse.statusCode \in 200..299

\* The call just served is a publish that has written the document.
Published(before, after) ==
  req'.op = "publishFlow" /\ response'.status = 200 /\ after # before

\* C19: no authoring call lowers the version of a stored flow, and a
\* successful publish raises it by exactly 1 and sets the status published.
C19_VersionMonotonic ==
  [][ \A before \in flows : \A after \in flows' :
        after._id = before._id =>
          /\ after.version >= before.version
          /\ Published(before, after) =>
               (after.version = before.version + 1 /\ after.status = "published")
    ]_vars

\* The publish half of C19 on its own.
C19_PublishIncrements ==
  [][ \A before \in flows : \A after \in flows' :
        (after._id = before._id /\ Published(before, after)) =>
          (after.version = before.version + 1 /\ after.status = "published")
    ]_vars

\* C20: every flow in the store has a slug of the format ^[a-z0-9-]+$.
C20_StoredSlugsWellFormed ==
  \A doc \in flows : SlugFormatOk(doc.slug)

\* C21: the connections of every stored flow have both endpoints among the
\* flow's blocks, have no self-loop and induce a graph without a cycle.
C21_StoredGraphsAreDags ==
  \A doc \in flows :
    /\ \A c \in Range(doc.connections) :
         /\ c.fromBlockId \in {b.id : b \in Range(doc.blocks)}
         /\ c.toBlockId \in {b.id : b \in Range(doc.blocks)}
         /\ c.fromBlockId # c.toBlockId
    /\ ~HasCycle(doc.connections)

\* The logs request for a stored flow has been answered.
LogsAnswered == req.op = "logs" /\ response.status = 200

\* The start times of the logs written for the flow with slug req.slug.
LoggedStarts ==
  {execution_logs[i].startedAt :
     i \in {j \in 1..Len(execution_logs) :
              \E doc \in BySlug(flows, req.slug) :
                execution_logs[j].flowId \in {doc._id, IdString(doc._id)}}}

\* C22: the answer of a logs request holds the logs of all executions
\* logged for the flow (the LogLimit most recent ones), most recent first,
\* whether the execution loaded the flow from the cache or from the store.
C22_LogsReturned ==
  LogsAnswered =>
    LET returned == response.data.v
    IN  /\ \A i \in 1..Len(returned) - 1 :
             returned[i].startedAt > returned[i + 1].startedAt
        /\ Cardinality(LoggedStarts) <= LogLimit =>
             {returned[i].startedAt : i \in 1..Len(returned)} = LoggedStarts

\* The order of the answer on its own.
C22_MostRecentFirst ==
  LogsAnswered =>
    \A i \in 1..Len(response.data.v) - 1 :
      response.data.v[i].startedAt > response.data.v[i + 1].startedAt

\* The value the source of a mapping stands for when the call of
\* resolveInputMappings recorded in call was made: undefined for the
\* output of a block that had no result or no outputs then.
SourceValue(source, call) ==
  CASE source.type = "flow_input" -> Prop(inputs, source.name)
    [] source.type = "block_output" ->
         IF source.blockId \in call.recorded
            /\ blockResults[source.blockId].outputs # Undefined
         THEN Prop(blockResults[source.blockId].outputs.v, source.outputName)
         ELSE Undefined
    [] OTHER -> source.value

\* The last mapping of the list that targets the input.
LastMapping(mappings, target) ==
  mappings[CHOOSE i \in 1..Len(mappings) :
             /\ mappings[i].targetInput = target
             /\ \A j \in i + 1..Len(mappings) : mappings[j].targetInput # target]

\* C23: every input resolved for a block instance has the value of the
\* source of the last mapping that targets it.
C23_LaterMappingWins ==
  Loaded =>
    \A i \in 1..Len(resolved) :
      LET mappings == Instance(resolved[i].id).inputMappings
      IN  \A target \in {m.targetInput : m \in Range(mappings)} :
            Prop(resolved[i].inputs, target)
              = SourceValue(LastMapping(mappings, target).source, resolved[i])

\* The same for the inputs whose last mapping is not the output of a block
\* without outputs.
C23_LaterMappingWinsWhenPresent ==
  Loaded =>
    \A i \in 1..Len(resolved) :
      LET mappings == Instance(resolved[i].id).inputMappings
      IN  \A target \in {m.targetInput : m \in Range(mappings)} :
            LET source == LastMapping(mappings, target).source
            IN  (source.type = "block_output" =>
                   /\ source.blockId \in resolved[i].recorded
                   /\ blockResults[source.blockId].outputs # Undefined)
                => Prop(resolved[i].inputs, target) = SourceValue(source, resolved[i])

RECURSIVE Addressed(_, _)
\* The value the segments address in current: undefined when a segment has
\* to traverse null, undefined, a value that is no object, a missing key,
\* or, for an indexed segment, a value that is no array or an index past
\* its end.
Addressed(current, parts) ==
  IF parts = <<>> THEN current
  ELSE LET part == Head(parts)
       IN  IF current.k # "object" \/ part.key \notin DOMAIN current.v
           THEN Undefined
           ELSE LET held == current.v[part.key]
                IN  IF ~part.indexed THEN Addressed(held, Tail(parts))
                    ELSE IF held.k # "array" \/ part.index + 1 > Len(held.v)
                    THEN Undefined
                    ELSE Addressed(held.v[part.index + 1], Tail(parts))

\* The path of the output the api_call block definition b1 declares.
DeclaredPath == (CHOOSE b \in blocks : b._id = "b1").outputs[1].path

\* C24: the output extracted from the body of an answered upstream call is
\* the whole body for the path '$' and the value the path addresses
\* otherwise, undefined when a segment cannot be traversed.
C24_PathEvaluation ==
  \A id \in DOMAIN blockResults :
    blockResults[id].rawResponse # Undefined =>
      Prop(blockResults[id].outputs.v, "email")
        = IF DeclaredPath.root THEN blockResults[id].rawResponse.data
          ELSE Addressed(blockResults[id].rawResponse.data, DeclaredPath.parts)

\* The same for the paths without an indexed segment on a value that is
\* no array.
C24_PathEvaluationOfArrays ==
  \A id \in DOMAIN blockResults :
    (/\ blockResults[id].rawResponse # Undefined
     /\ \A i \in 1..Len(DeclaredPath.parts) :
          DeclaredPath.parts[i].indexed => DeclaredPath.parts[i].key = "items") =>
      Prop(blockResults[id].outputs.v, "email")
        = IF DeclaredPath.root THEN blockResults[id].rawResponse.data
          ELSE Addressed(blockResults[id].rawResponse.data, DeclaredPath.parts)

\* The cache keys the request in service may set: the key of its slug and
\* the keys of the block definitions its flow refers to.
OwnKeys ==
  {SlugKey(req.slug)}
    \cup (IF flow = Null THEN {} ELSE {BlockKey(b.blockId) : b \in Range(flow.blocks)})

\* C25: a step of an execute request leaves the flows and blocks collections
\* as they are, deletes and overwrites no cache key, sets only the key of
\* its slug and the keys of its blocks, at the population after a miss,
\* and adds to execution_logs at most one log, of a non-test request.
C25_EngineWrites ==
  [][ /\ flows' = flows
      /\ blocks' = blocks
      /\ \A key \in DOMAIN redis : key \in DOMAIN redis' /\ redis'[key] = redis[key]
      /\ \A key \in DOMAIN redis' \ DOMAIN redis :
           /\ key \in OwnKeys
           /\ pc \in {"setFlowBySlug", "setBlock"}
      /\ \/ execution_logs' = execution_logs
         \/ /\ Len(execution_logs') = Len(execution_logs) + 1
            /\ SubSeq(execution_logs', 1, Len(execution_logs)) = execution_logs
            /\ execution_logs'[Len(execution_logs')].startedAt \notin testStarts
    ]_vars

\* A request that was not a test has been answered, the keys of its flow
\* and of a block are in the cache and its log is written.
C25_Witness ==
  /\ Responded /\ Loaded /\ ~req.isTest
  /\ SlugKey(req.slug) \in DOMAIN redis
  /\ \E b \in Range(flow.blocks) : BlockKey(b.blockId) \in DOMAIN redis
  /\ Len(execution_logs) = 1

\* C26: two execute requests for the same slug have not both loaded the
\* flow from the store (each holding the document findOne returned, before
\* its setFlowBySlug).
C26_LoadedOnce ==
  ~ /\ pc = "setFlowBySlug"
    /\ concurrent.pc = "setFlowBySlug"
    /\ req.slug = concurrent.slug

\* The connections of the loaded flow are acyclic and end at its blocks.
WellFormedGraph ==
  /\ ~HasCycle(flow.connections)
  /\ \A c \in Range(flow.connections) :
       {c.fromBlockId, c.toBlockId} \subseteq {b.id : b \in Range(flow.blocks)}

\* No block of the request has failed so far.
NoFailure ==
  /\ \A id \in DOMAIN blockResults : blockResults[id].status = "success"
  /\ outcome.error = Undefined

\* The loop over the plan is over: the outputs are projected next, or have
\* been.
LoopOver ==
  \/ pc = "block" /\ idx > Len(executionOrder)
  \/ pc = "respond"
  \/ Responded /\ response.status = 200

AuthoringCall == calls' = calls + 1

\* C28: a call of the flows or blocks API that carries no token that
\* verifies is answered 401 and leaves the flows and blocks collections
\* and the cache as they are.
C28_UnauthenticatedRejected ==
  [][ AuthoringCall =>
        /\ response'.status = 401
        /\ flows' = flows
        /\ blocks' = blocks
        /\ redis' = redis ]_vars

\* The same for the calls of the flows API.
C28_UnauthenticatedFlowCallsRejected ==
  [][ (AuthoringCall /\ req'.op # "deleteBlock") =>
        /\ response'.status = 401
        /\ flows' = flows
        /\ blocks' = blocks
        /\ redis' = redis ]_vars

\* C29: no two flows in the store have the same slug.
C29_UniqueSlugs ==
  \A doc, other \in flows : doc.slug = other.slug => doc = other

\* The ids of the nodes in the editor store.
NodeIds == {nodes[i].id : i \in 1..Len(nodes)}

\* C30: the source and the target of every edge of the editor store are
\* ids of nodes in the store.
C30_NoDanglingEdge ==
  \A e \in Range(edges) : e.source \in NodeIds /\ e.target \in NodeIds

\* A step that removes a node leaves no edge from or to its id.
C30_RemoveNodeRemovesEdges ==
  [][ \A id \in NodeIds :
        id \notin {nodes'[i].id : i \in 1..Len(nodes')} =>
          \A e \in Range(edges') : e.source # id /\ e.target # id ]_vars

====
